---- MODULE Spec2Model ----
(***************************************************************************)
(* dreamBeam: the pointing_jones command (scripts/pointing_jones.py) and   *)
(* the station geometry resolver (telescopes/geometry_ingest.py).          *)
(*                                                                         *)
(* Three entry points are modelled, chosen in Init:                        *)
(*   prog = "cli_main"            the command: cli_main()                  *)
(*   prog = "main"                one call of main(...)                    *)
(*   prog = "getArrayBandParams"  one call of getArrayBandParams()         *)
(*                                                                         *)
(* Python sequences are 0-based; the model keeps the code's 0-based        *)
(* indices (ti, fi, frqIdx, stnid_idx) and reads TLA+ sequences through    *)
(* At(s, k) == s[k + 1].  None is the empty tuple <<>>, a value v that may *)
(* be None is <<v>>.                                                       *)
(***************************************************************************)
EXTENDS Integers, Sequences, FiniteSets, TLC

VARIABLES
    prog,       \* which entry point this run executes
    pc,         \* position in the running code
    exc,        \* "" or the name of the exception that ended the run
    exitStatus, \* process exit status, -1 while running
    out,        \* lines printed on standard output, in order
    plots,      \* plotting/diagnostic collaborators called, in order
    cmdargs,    \* cli_main: the positional arguments as parse_args returns them
    telescope,  \* cli_main local / main parameter telescopename
    action,     \* main parameter action
    frmt,       \* --frmt option / main parameter frmt
    freq,       \* main parameter freq: <<>> (None) or <<f>>
    timespy,    \* main: time axis returned by on_pointing_axis_tracking
    freqs,      \* main: frequency axis (Hz, ascending)
    Jn,         \* main: Jones tensor, Jn[fi][ti][r][c] = <<re, im>>
    iscloseDone,\* history: np.isclose(freqs, freq, ...) has been evaluated
    frqIdx,     \* main local frqIdx, -1 before it is assigned
    JnfShape,   \* shape of Jnf = Jn[frqIdx, :, :, :].squeeze()
    ti,         \* loop index over timespy
    fi,         \* loop index over freqs
    geo         \* getArrayBandParams: files, arguments, locals and result

vars == <<prog, pc, exc, exitStatus, out, plots, cmdargs, telescope, action,
          frmt, freq, timespy, freqs, Jn, iscloseDone, frqIdx, JnfShape,
          ti, fi, geo>>

mainVars == <<timespy, freqs, Jn, iscloseDone, frqIdx, JnfShape, ti, fi>>

----------------------------------------------------------------------------
(* Bounds of the model *)

\* longest frequency axis on_pointing_axis_tracking returns
MaxChan == 3
\* largest number of time samples on_pointing_axis_tracking returns
MaxTimes == 2
\* most positional arguments given on the command line
MaxArgs == 11
\* most malformed numeric tokens on one command line
MaxBad == 1
\* most rows in an array configuration file
MaxStations == 2

(* Program constants *)

\* atol=190e3 of np.isclose
ATOL == 190000
\* np.isclose's default rtol=1e-5, kept as its inverse: rtol = 1 / RTOL_INV
RTOL_INV == 100000
\* 'S5': station names are read into 5-byte strings
NAME_WIDTH == 5
----------------------------------------------------------------------------
(* Helpers *)

None == <<>>

At(s, k) == s[k + 1]

Abs(x) == IF x < 0 THEN -x ELSE x

Min(a, b) == IF a < b THEN a ELSE b

\* channel frequencies a beam model may have (Hz)
FreqCandidates == {100000000, 100100000, 100300000, 101000000}

\* offsets of the requested frequency from a channel (Hz)
FreqOffsets == {-190001, -1, 0, 189999, 190001, 191001, 191002, 500000}

\* frequencies a user may request
FreqRequests == {c + d : c \in FreqCandidates, d \in FreqOffsets}

\* strictly ascending sequences of n values of S
RECURSIVE Ascending(_, _)
Ascending(S, n) ==
    IF n = 0 THEN {<<>>}
    ELSE LET shorter == Ascending(S, n - 1)
             pairs == {p \in shorter \X S :
                          Len(p[1]) = 0 \/ p[1][Len(p[1])] < p[2]}
         IN  {Append(p[1], p[2]) : p \in pairs}

----------------------------------------------------------------------------
(* The Jones grid: what on_pointing_axis_tracking hands back to main *)

\* the k-th (0-based) instant of the time axis
TimeAt(k) == 7000 + k

\* the complex tensor entry [fi, ti, r, c], as <<real, imaginary>>
JonesEntry(f, t, r, c) ==
    <<1000 * f + 100 * t + 10 * r + c, -(1000 * f + 100 * t + 10 * r + c) - 1>>

\* a tensor of shape (M, N, 2, 2)
Tensor(M, N) ==
    [f \in 1..M |-> [t \in 1..N |-> [r \in 1..2 |-> [c \in 1..2 |->
        JonesEntry(f - 1, t - 1, r - 1, c - 1)]]]]

\* Jn[f, t, r, c] with the code's 0-based indices
Jones(J, f, t, r, c) == J[f + 1][t + 1][r + 1][c + 1]

----------------------------------------------------------------------------
(* Text output *)

Tok(tag, a, b) == [tag |-> tag, a |-> a, b |-> b]

\* str(x) of a real number
StrFloat(x) == <<Tok("float", x, 0)>>

\* str(z) of a complex number: one token "(re+imj)"
StrComplex(z) == <<Tok("complex", z[1], z[2])>>

\* datetime.isoformat()
IsoFormat(t) == <<Tok("iso", t, 0)>>

\* quantity(t.isoformat()).get_value()
QuantityValue(t) == <<Tok("mjd", t, 0)>>

\* paccompf(Jij): str(np.real(Jij)) + ' ' + str(np.imag(Jij))
paccompf(z) == StrFloat(z[1]) \o StrFloat(z[2])

\* delimiter.join(map(str, items)): the tokens of the line and its delimiter
RECURSIVE Flatten(_)
Flatten(items) ==
    IF items = <<>> THEN <<>> ELSE Head(items) \o Flatten(Tail(items))

Join(delimiter, items) == [delim |-> delimiter, toks |-> Flatten(items)]

\* print(text) of a fixed text
TextLine(text) == [delim |-> "", toks |-> <<Tok(text, 0, 0)>>]

HeaderAll == TextLine("Time, Freq, J00, J01, J10, J11")

HeaderFreq == TextLine("Time, Freq, J11, J12, J21, J22")

\* a slip that would print J10 where J01 belongs and J01 where J10 belongs
AllJonesLineSwapped(fmt, times, fs, J, t, f) ==
    IF fmt = "csv"
    THEN Join(",", <<IsoFormat(At(times, t)), StrFloat(At(fs, f)),
                     StrComplex(Jones(J, f, t, 0, 0)),
                     StrComplex(Jones(J, f, t, 1, 0)),
                     StrComplex(Jones(J, f, t, 0, 1)),
                     StrComplex(Jones(J, f, t, 1, 1))>>)
    ELSE Join(" ", <<QuantityValue(At(times, t)), StrFloat(At(fs, f)),
                     paccompf(Jones(J, f, t, 0, 0)),
                     paccompf(Jones(J, f, t, 1, 0)),
                     paccompf(Jones(J, f, t, 0, 1)),
                     paccompf(Jones(J, f, t, 1, 1))>>)

\* the line printAllJones prints for (ti, fi) under frmt 'csv' or 'pac'
AllJonesLine(fmt, times, fs, J, t, f) ==
    IF fmt = "csv"
    THEN Join(",", <<IsoFormat(At(times, t)), StrFloat(At(fs, f)),
                     StrComplex(Jones(J, f, t, 0, 0)),
                     StrComplex(Jones(J, f, t, 0, 1)),
                     StrComplex(Jones(J, f, t, 1, 0)),
                     StrComplex(Jones(J, f, t, 1, 1))>>)
    ELSE Join(" ", <<QuantityValue(At(times, t)), StrFloat(At(fs, f)),
                     paccompf(Jones(J, f, t, 0, 0)),
                     paccompf(Jones(J, f, t, 0, 1)),
                     paccompf(Jones(J, f, t, 1, 0)),
                     paccompf(Jones(J, f, t, 1, 1))>>)

\* the line printJonesFreq prints for ti; Jnf[ti] is Jn[idx, ti]
JonesFreqLine(times, J, idx, f, t) ==
    Join(",", <<IsoFormat(At(times, t)), StrFloat(f),
                StrComplex(Jones(J, idx, t, 0, 0)),
                StrComplex(Jones(J, idx, t, 0, 1)),
                StrComplex(Jones(J, idx, t, 1, 0)),
                StrComplex(Jones(J, idx, t, 1, 1))>>)

----------------------------------------------------------------------------
(* Frequency selection *)

\* a slip that would test the lower band edge only
OutOfBandLowOnly(f, fs) == f < At(fs, 0)

\* freq < freqs[0] or freq > freqs[-1]
OutOfBand(f, fs) == f < At(fs, 0) \/ f > At(fs, Len(fs) - 1)

\* np.isclose(a, b, atol=190e3): |a - b| <= atol + rtol * |b|, rtol = 1e-5.
\* a - b is a whole number of Hz, so the bound is atol + floor(|b| / 1e5).
IsClose(a, b) == Abs(a - b) <= ATOL + (Abs(b) \div RTOL_INV)

\* np.where(np.isclose(freqs, freq, atol=190e3))[0]: the matching indices
WhereClose(fs, f) == {k \in 0..(Len(fs) - 1) : IsClose(At(fs, k), f)}

\* [0] of an ascending index array
First(S) == CHOOSE k \in S : \A j \in S : k <= j

\* ndarray.squeeze(): drop the axes of length one
Squeeze(shape) == SelectSeq(shape, LAMBDA d : d # 1)

----------------------------------------------------------------------------
(* main(telescopename, stnid, band, antmodel, bTime, duration, stepTime,   *)
(*      celdir, freq, action, frmt, do_parallactic_rot)                    *)

\* an exception nothing catches: traceback, exit status 1
Raise(kind) ==
    /\ exc' = kind
    /\ pc' = "failed"
    /\ exitStatus' = 1

\* the function returns and the interpreter exits normally
Return ==
    /\ pc' = "done"
    /\ exitStatus' = 0
    /\ exc' = exc

\* timespy, freqs, Jn, res = on_pointing_axis_tracking(...)
MainTracking ==
    /\ pc = "main"
    /\ \E M \in 1..MaxChan, N \in 0..MaxTimes :
         \E fs \in Ascending(FreqCandidates, M) :
            /\ freqs' = fs
            /\ timespy' = [k \in 1..N |-> TimeAt(k - 1)]
            /\ Jn' = Tensor(M, N)
    /\ pc' = "check"
    /\ UNCHANGED <<prog, exc, exitStatus, out, plots, cmdargs, telescope,
                   action, frmt, freq, iscloseDone, frqIdx, JnfShape, ti, fi,
                   geo>>

\* if (freq < freqs[0] or freq > freqs[-1]) and freq is not None: raise
MainRangeCheck ==
    /\ pc = "check"
    /\ freq # None
    /\ IF OutOfBand(freq[1], freqs)
       THEN Raise("ValueError")
       ELSE pc' = "display" /\ UNCHANGED <<exc, exitStatus>>
    /\ UNCHANGED <<prog, out, plots, cmdargs, telescope, action, frmt, freq,
                   mainVars, geo>>

\* the same line with freq None, where None < freqs[0] is evaluated first.
\* An interpreter that orders None below every number (Python 2) finds the
\* comparison true and then `freq is not None` false: no raise.
MainRangeCheckNoneOrdered ==
    /\ pc = "check"
    /\ freq = None
    /\ pc' = "display"
    /\ UNCHANGED <<prog, exc, exitStatus, out, plots, cmdargs, telescope,
                   action, frmt, freq, mainVars, geo>>

\* An interpreter that does not order None (Python 3) raises TypeError there.
MainRangeCheckNoneUnordered ==
    /\ pc = "check"
    /\ freq = None
    /\ Raise("TypeError")
    /\ UNCHANGED <<prog, out, plots, cmdargs, telescope, action, frmt, freq,
                   mainVars, geo>>

\* if action == "plot": display_pointings(res, obsinfo, ...)
MainDisplay ==
    /\ pc = "display"
    /\ plots' = IF action = "plot"
                THEN Append(plots, "display_pointings") ELSE plots
    /\ pc' = "dispatch"
    /\ UNCHANGED <<prog, exc, exitStatus, out, cmdargs, telescope, action,
                   frmt, freq, mainVars, geo>>

\* if freq is None: plotAllJones(...) or printAllJones(...)
MainDispatchAll ==
    /\ pc = "dispatch"
    /\ freq = None
    /\ IF action = "plot"
       THEN /\ plots' = Append(plots, "plot_polcomp_dynspec")
            /\ Return
       ELSE /\ pc' = "printAllJones"
            /\ UNCHANGED <<plots, exc, exitStatus>>
    /\ UNCHANGED <<prog, out, cmdargs, telescope, action, frmt, freq,
                   mainVars, geo>>

\* else: frqIdx = np.where(np.isclose(freqs, freq, atol=190e3))[0][0]
\*       Jnf = Jn[frqIdx, :, :, :].squeeze()
MainDispatchFreq ==
    /\ pc = "dispatch"
    /\ freq # None
    /\ iscloseDone' = TRUE
    /\ IF WhereClose(freqs, freq[1]) = {}
       THEN /\ Raise("IndexError")
            /\ UNCHANGED <<frqIdx, JnfShape>>
       ELSE /\ frqIdx' = First(WhereClose(freqs, freq[1]))
            /\ JnfShape' = Squeeze(<<Len(timespy), 2, 2>>)
            /\ pc' = IF action = "plot" THEN "plotJonesFreq"
                                        ELSE "printJonesFreq"
            /\ UNCHANGED <<exc, exitStatus>>
    /\ UNCHANGED <<prog, out, plots, cmdargs, telescope, action, frmt, freq,
                   timespy, freqs, Jn, ti, fi, geo>>

\* printAllJones: if frmt == 'csv': print(header); then enter the loops
PrintAllHeader ==
    /\ pc = "printAllJones"
    /\ out' = IF frmt = "csv" THEN Append(out, HeaderAll) ELSE out
    /\ ti' = 0
    /\ fi' = 0
    /\ IF Len(timespy) = 0
       THEN Return
       ELSE pc' = "printAllJones_row" /\ UNCHANGED <<exc, exitStatus>>
    /\ UNCHANGED <<prog, plots, cmdargs, telescope, action, frmt, freq,
                   timespy, freqs, Jn, iscloseDone, frqIdx, JnfShape, geo>>

\* (ti, fi) after one pass of `for ti ...: for fi, freq in enumerate(freqs)`
AllNext(t, f, M) == IF f + 1 < M THEN <<t, f + 1>> ELSE <<t + 1, 0>>

\* one pass of the inner loop body of printAllJones.  With frmt neither
\* 'csv' nor 'pac', delimiter is unbound at delimiter.join.
PrintAllRow ==
    /\ pc = "printAllJones_row"
    /\ IF frmt \notin {"csv", "pac"}
       THEN /\ Raise("UnboundLocalError")
            /\ UNCHANGED <<out, ti, fi>>
       ELSE /\ out' = Append(out,
                        AllJonesLine(frmt, timespy, freqs, Jn, ti, fi))
            /\ ti' = AllNext(ti, fi, Len(freqs))[1]
            /\ fi' = AllNext(ti, fi, Len(freqs))[2]
            /\ IF AllNext(ti, fi, Len(freqs))[1] < Len(timespy)
               THEN pc' = pc /\ UNCHANGED <<exc, exitStatus>>
               ELSE Return
    /\ UNCHANGED <<prog, plots, cmdargs, telescope, action, frmt, freq,
                   timespy, freqs, Jn, iscloseDone, frqIdx, JnfShape, geo>>

\* printJonesFreq: print(header), then enter the loop
PrintFreqHeader ==
    /\ pc = "printJonesFreq"
    /\ out' = Append(out, HeaderFreq)
    /\ ti' = 0
    /\ IF Len(timespy) = 0
       THEN Return
       ELSE pc' = "printJonesFreq_row" /\ UNCHANGED <<exc, exitStatus>>
    /\ UNCHANGED <<prog, plots, cmdargs, telescope, action, frmt, freq,
                   timespy, freqs, Jn, iscloseDone, frqIdx, JnfShape, fi, geo>>

\* Jnf[ti, r, c] takes three indices: it needs a three-axis Jnf
CanIndex3(shape) == Len(shape) = 3

\* one pass of the loop body of printJonesFreq
PrintFreqRow ==
    /\ pc = "printJonesFreq_row"
    /\ IF ~CanIndex3(JnfShape)
       THEN /\ Raise("IndexError")
            /\ UNCHANGED <<out, ti>>
       ELSE /\ out' = Append(out,
                        JonesFreqLine(timespy, Jn, frqIdx, freq[1], ti))
            /\ ti' = ti + 1
            /\ IF ti + 1 < Len(timespy)
               THEN pc' = pc /\ UNCHANGED <<exc, exitStatus>>
               ELSE Return
    /\ UNCHANGED <<prog, plots, cmdargs, telescope, action, frmt, freq,
                   timespy, freqs, Jn, iscloseDone, frqIdx, JnfShape, fi, geo>>

\* plotJonesFreq: p_ch = np.abs(Jnf[:, 0, 0].squeeze())**2 + ...
PlotJonesFreq ==
    /\ pc = "plotJonesFreq"
    /\ IF ~CanIndex3(JnfShape)
       THEN Raise("IndexError") /\ UNCHANGED plots
       ELSE plots' = Append(plots, "plotJonesFreq") /\ Return
    /\ UNCHANGED <<prog, out, cmdargs, telescope, action, frmt, freq,
                   mainVars, geo>>

----------------------------------------------------------------------------
(* cli_main() *)

\* a positional argument: a name, or a numeric text that parses ("ok" with
\* its value), does not parse ("bad"), or parses to infinity ("inf")
StrTok(name) == [s |-> name, cls |-> "ok", v |-> 0]

NumTok(cls, v) == [s |-> "", cls |-> cls, v |-> v]

\* the texts a user may type at position i (1-based) of the command line
ArgTokens(i) ==
    CASE i = 1 -> {StrTok("print"), StrTok("plot")}
      [] i = 2 -> {StrTok("LOFAR"), StrTok("FOO")}
      [] i = 3 -> {StrTok("LBA")}
      [] i = 4 -> {StrTok("SE607")}
      [] i = 5 -> {StrTok("Hamaker")}
      [] i = 6 -> {NumTok("ok", 0), NumTok("bad", 0)}
      [] i \in {7, 8} -> {NumTok("ok", 60), NumTok("bad", 0), NumTok("inf", 0)}
      [] i \in {9, 10} -> {NumTok("ok", 1), NumTok("bad", 0)}
      [] i = 11 -> {NumTok("ok", f) : f \in FreqRequests} \cup {NumTok("bad", 0)}
      [] OTHER -> {StrTok("extra")}

NumBad(args) == Cardinality({i \in 1..Len(args) : args[i].cls # "ok"})

\* the command lines of n positional arguments
RECURSIVE ArgLists(_)
ArgLists(n) ==
    IF n = 0 THEN {<<>>}
    ELSE {a \in {Append(p[1], p[2]) : p \in ArgLists(n - 1) \X ArgTokens(n)} :
             NumBad(a) <= MaxBad}

\* the names module dreambeam.telescopes.rt binds (telescopes/rt.py)
RtNames == {"os", "pickle", "dreambeam", "TelescopeStnBnd", "TelescopeWiz"}

\* cli_main: parse_args, then telplugs = rt.get_tel_plugins().  rt binds no
\* get_tel_plugins, so the attribute lookup raises AttributeError before the
\* try block is entered: nothing is printed and main is not called.
CliMain ==
    /\ pc = "cli_main"
    /\ "get_tel_plugins" \notin RtNames
    /\ Raise("AttributeError")
    /\ UNCHANGED <<prog, out, plots, cmdargs, telescope, action, frmt, freq,
                   mainVars, geo>>

----------------------------------------------------------------------------
(* getArrayBandParams(telescope, stnid, band)  (geometry_ingest.py) *)

\* station names as texts: sequences of characters
Name(a, b) == <<"S", "E", "6", "0", a>> \o b

\* names found in array configuration files (at most 5 characters)
FileNames == {Name("7", <<>>), Name("8", <<>>), Name("9", <<>>)}

\* station names a caller may ask for
AskedNames == FileNames \cup {Name("1", <<>>), Name("7", <<"X">>),
                              <<"S", "E", "6", "0">>, <<"6", "0", "7">>}

\* the 'S5' field of CASA_CFG_DTYPE keeps the first 5 characters of a name
ReadName(text) == SubSeq(text, 1, Min(Len(text), NAME_WIDTH))

\* row i (0-based) of a configuration file holding the names ns
CfgRow(ns, i) == [name |-> At(ns, i), x |-> 10 * i, y |-> 10 * i + 1,
                  z |-> 10 * i + 2, diam |-> 30]

\* the configuration files, of no row up to MaxStations rows
CfgFiles ==
    UNION {{[i \in 1..n |-> CfgRow(ns, i - 1)] : ns \in [1..n -> FileNames]}
           : n \in 0..MaxStations}

\* np.loadtxt squeezes its result: a file of one row gives 0-dimensional
\* arrays, and names.tolist() is then one string, not a list of strings
IsScalar(rows) == Len(rows) = 1

\* str.index(sub): the 0-based places where sub starts in text
Occurrences(text, sub) ==
    {k \in 0..(Len(text) - Len(sub)) : SubSeq(text, k + 1, k + Len(sub)) = sub}

\* names.tolist().index(stnid): the indices holding stnid
Matches(names, stnid) == {k \in 0..(Len(names) - 1) : At(names, k) = stnid}

\* list.index: the first index holding stnid
Index(names, stnid) == First(Matches(names, stnid))

GeoIdle == [cfg |-> None, align |-> None, stnid |-> <<>>, names |-> <<>>,
            stnid_idx |-> -1, stnPos |-> None, alignRead |-> FALSE,
            ret |-> None]

\* x, y, z, diam, names = readarrcfg(telescope, band)
ReadArrCfg ==
    /\ pc = "getArrayBandParams"
    /\ IF geo.cfg = None
       THEN Raise("IOError") /\ geo' = geo
       ELSE /\ geo' = [geo EXCEPT !.names =
                         [i \in 1..Len(geo.cfg[1]) |->
                             ReadName(geo.cfg[1][i].name)]]
            /\ pc' = "index"
            /\ UNCHANGED <<exc, exitStatus>>
    /\ UNCHANGED <<prog, out, plots, cmdargs, telescope, action, frmt, freq,
                   mainVars>>

\* stnid_idx = names.tolist().index(stnid)
\* stnPos = [x[stnid_idx], y[stnid_idx], z[stnid_idx]]
\* On a file of one row, index is str.index on the one name (a substring
\* search) and x[stnid_idx] indexes a 0-dimensional array: IndexError.
IndexStation ==
    /\ pc = "index"
    /\ IF IsScalar(geo.cfg[1])
       THEN IF Occurrences(geo.names[1], geo.stnid) = {}
            THEN Raise("ValueError") /\ geo' = geo
            ELSE /\ Raise("IndexError")
                 /\ geo' = [geo EXCEPT !.stnid_idx =
                               First(Occurrences(geo.names[1], geo.stnid))]
       ELSE IF Matches(geo.names, geo.stnid) = {}
            THEN Raise("ValueError") /\ geo' = geo
            ELSE /\ LET idx == Index(geo.names, geo.stnid)
                        row == At(geo.cfg[1], idx)
                    IN  geo' = [geo EXCEPT !.stnid_idx = idx,
                                           !.stnPos = <<row.x, row.y, row.z>>]
                 /\ pc' = "alignment"
                 /\ UNCHANGED <<exc, exitStatus>>
    /\ UNCHANGED <<prog, out, plots, cmdargs, telescope, action, frmt, freq,
                   mainVars>>

\* stnRot = readalignment(telescope, stnid, band); return stnPos, stnRot
ReadAlignment ==
    /\ pc = "alignment"
    /\ IF geo.align = None
       THEN Raise("IOError") /\ geo' = [geo EXCEPT !.alignRead = TRUE]
       ELSE /\ geo' = [geo EXCEPT !.alignRead = TRUE,
                                  !.ret = <<geo.stnPos, geo.align[1]>>]
            /\ Return
    /\ UNCHANGED <<prog, out, plots, cmdargs, telescope, action, frmt, freq,
                   mainVars>>

----------------------------------------------------------------------------
(* The specification *)

Formats == {"csv", "pac", "xml"}

InitCommon ==
    /\ exc = ""
    /\ exitStatus = -1
    /\ out = <<>>
    /\ plots = <<>>
    /\ timespy = <<>>
    /\ freqs = <<>>
    /\ Jn = <<>>
    /\ iscloseDone = FALSE
    /\ frqIdx = -1
    /\ JnfShape = <<>>
    /\ ti = 0
    /\ fi = 0

InitCli ==
    /\ prog = "cli_main"
    /\ pc = "cli_main"
    /\ \E n \in 0..MaxArgs : cmdargs \in ArgLists(n)
    /\ frmt \in Formats
    /\ telescope = ""
    /\ action = ""
    /\ freq = None
    /\ geo = GeoIdle

\* a call main(telescopename, ..., freq=freq, action=action, frmt=frmt)
InitMain ==
    /\ prog = "main"
    /\ pc = "main"
    /\ cmdargs = <<>>
    /\ telescope = "LOFAR"
    /\ action \in {"print", "plot"}
    /\ frmt \in Formats
    /\ freq \in {None} \cup {<<f>> : f \in FreqRequests}
    /\ geo = GeoIdle

InitGeo ==
    /\ prog = "getArrayBandParams"
    /\ pc = "getArrayBandParams"
    /\ cmdargs = <<>>
    /\ frmt = ""
    /\ telescope = ""
    /\ action = ""
    /\ freq = None
    /\ \E cfg \in {None} \cup {<<c>> : c \in CfgFiles},
          align \in {None, <<"stnRot">>},
          stnid \in AskedNames :
         geo = [GeoIdle EXCEPT !.cfg = cfg, !.align = align, !.stnid = stnid]

Init == InitCommon /\ (InitCli \/ InitMain \/ InitGeo)

Next ==
    \/ CliMain
    \/ MainTracking
    \/ MainRangeCheck
    \/ MainRangeCheckNoneOrdered
    \/ MainRangeCheckNoneUnordered
    \/ MainDisplay
    \/ MainDispatchAll
    \/ MainDispatchFreq
    \/ PrintAllHeader
    \/ PrintAllRow
    \/ PrintFreqHeader
    \/ PrintFreqRow
    \/ PlotJonesFreq
    \/ ReadArrCfg
    \/ IndexStation
    \/ ReadAlignment

Spec == Init /\ [][Next]_vars

----------------------------------------------------------------------------
(* Vocabulary of the properties *)

Terminal == pc \in {"done", "failed"}

\* main has its grid: on_pointing_axis_tracking has returned
HaveGrid == freqs # <<>>

NTimes == Len(timespy)

NChan == Len(freqs)

\* the lines of out that are data rows (joined with a delimiter)
DataRows == SelectSeq(out, LAMBDA l : l.delim # "")

\* the lines of out that are fixed texts (headers, messages)
TextLines == SelectSeq(out, LAMBDA l : l.delim = "")

\* the numbers a line carries, in order: a complex token carries two
RECURSIVE Values(_)
Values(toks) ==
    IF toks = <<>> THEN <<>>
    ELSE (IF Head(toks).tag = "complex"
          THEN <<Head(toks).a, Head(toks).b>>
          ELSE <<Head(toks).a>>) \o Values(Tail(toks))

\* the numbers of a row for time t, frequency f and tensor[fidx, tidx, :, :]
RowValues(t, f, fidx, tidx) ==
    <<t, f>> \o Jn[fidx + 1][tidx + 1][1][1] \o Jn[fidx + 1][tidx + 1][1][2]
             \o Jn[fidx + 1][tidx + 1][2][1] \o Jn[fidx + 1][tidx + 1][2][2]

\* the requested frequency lies below freqs[0] or above freqs[-1]
BelowOrAbove == freq[1] < freqs[1] \/ freq[1] > freqs[Len(freqs)]

\* |freqs[k] - f| for the 0-based channel k
Dist(k) == Abs(freqs[k + 1] - freq[1])

Channels == 0..(NChan - 1)

\* single-frequency mode with the band check behind it
Selecting == HaveGrid /\ freq # None /\ ~BelowOrAbove /\ (iscloseDone \/ Terminal)

----------------------------------------------------------------------------
(* C1: once the grid is known and the range check is behind, a requested    *)
(* frequency (not None) below freqs[0] or above freqs[-1] has ended the run *)
(* with ValueError, np.isclose has not been evaluated, and nothing has been *)
(* printed or plotted.                                                      *)
C1_RangeErrorFirst ==
    (HaveGrid /\ freq # None /\ BelowOrAbove /\ pc # "check")
        => /\ pc = "failed"
           /\ exc = "ValueError"
           /\ ~iscloseDone
           /\ out = <<>>
           /\ plots = <<>>

\* a plot run asked for a frequency above the band and died of ValueError
C1_Witness ==
    /\ HaveGrid /\ freq # None
    /\ freq[1] > freqs[Len(freqs)]
    /\ action = "plot"
    /\ exc = "ValueError"

(* C2: in single-frequency mode with the request inside the band and at    *)
(* least one channel within 190000 Hz of it, the selected index minimises  *)
(* |freqs[k] - f| over all channels.                                       *)
C2_SelectsClosest ==
    (Selecting /\ \E k \in Channels : Dist(k) <= ATOL)
        => /\ frqIdx \in Channels
           /\ \A k \in Channels : Dist(frqIdx) <= Dist(k)

(* C3: requesting exactly freqs[i] selects index i.                        *)
C3_SelectIdempotent ==
    (HaveGrid /\ freq # None /\ (iscloseDone \/ Terminal))
        => \A i \in Channels : freqs[i + 1] = freq[1] => frqIdx = i

(* C4: the tolerance is exactly 190000 Hz: inside the band, requesting     *)
(* freqs[i] + 189999 resolves to index i, and requesting freqs[i] + 190001 *)
(* never resolves to index i.                                              *)
C4_ToleranceExact ==
    Selecting
        => \A i \in Channels :
              /\ freq[1] = freqs[i + 1] + (ATOL - 1) => frqIdx = i
              /\ freq[1] = freqs[i + 1] + (ATOL + 1) => frqIdx # i

(* C5: a request inside the band with no channel within the tolerance ends *)
(* the run with a NoMatchingChannel error and no output row.               *)
C5_NoMatchingChannel ==
    (Selecting /\ Terminal /\ \A k \in Channels : Dist(k) > ATOL)
        => /\ exc = "NoMatchingChannel"
           /\ DataRows = <<>>

(* C6: in full-grid print mode (freq None, format csv or pac) the data     *)
(* rows printed so far are, in order, those of (time k div M, frequency    *)
(* k mod M) with the entries of tensor[k mod M, k div M], and when         *)
(* printAllJones has returned there are exactly N * M of them.             *)
C6_FullGridRows ==
    (HaveGrid /\ freq = None /\ action # "plot" /\ frmt \in {"csv", "pac"}
        /\ pc \in {"printAllJones_row", "done"})
        => /\ Len(DataRows) <= NTimes * NChan
           /\ pc = "done" => Len(DataRows) = NTimes * NChan
           /\ \A k \in 0..(Len(DataRows) - 1) :
                 Values(DataRows[k + 1].toks) =
                     RowValues(timespy[(k \div NChan) + 1],
                               freqs[(k % NChan) + 1],
                               k % NChan, k \div NChan)

\* a pac full grid of two times and three channels has been printed
C6_Witness ==
    /\ pc = "done" /\ freq = None /\ action = "print" /\ frmt = "pac"
    /\ NTimes = 2 /\ NChan = 3
    /\ Len(out) = 6

(* C7: in single-frequency print mode with N >= 1 time samples and a       *)
(* selected channel c, the finished run has printed exactly N data rows,   *)
(* the t-th carrying times[t] and tensor[c, t, :, :].                      *)
C7_SliceRows ==
    (HaveGrid /\ freq # None /\ action # "plot" /\ frqIdx # -1 /\ Terminal
        /\ NTimes >= 1)
        => /\ Len(DataRows) = NTimes
           /\ \A t \in 0..(NTimes - 1) :
                 Values(DataRows[t + 1].toks) =
                     RowValues(timespy[t + 1], freq[1], frqIdx, t)

(* C8: the format governs the output of main in both modes: with csv the   *)
(* first line is the header and rows are comma-delimited; with pac there   *)
(* is no header, rows are space-delimited and no complex entry is written  *)
(* as a single token.                                                      *)
C8_FormatGoverns ==
    (HaveGrid /\ out # <<>>)
        => /\ frmt = "csv" =>
                /\ out[1].delim = ""
                /\ \A i \in 1..Len(DataRows) : DataRows[i].delim = ","
           /\ frmt = "pac" =>
                /\ TextLines = <<>>
                /\ \A i \in 1..Len(out) :
                      /\ out[i].delim = " "
                      /\ \A j \in 1..Len(out[i].toks) :
                            out[i].toks[j].tag # "complex"

(* C9: getArrayBandParams returns a geometry only when both lookups        *)
(* succeed: a returned value is the position of the first row named stnid  *)
(* together with the alignment; a station not in the configuration file    *)
(* ends the call with the not-found error of the lookup (ValueError)       *)
(* before the alignment file is read; a missing alignment file ends it     *)
(* with an error; nothing partial is ever returned.                        *)
C9_GeometryAllOrNothing ==
    prog = "getArrayBandParams" =>
        /\ geo.ret # None =>
              /\ geo.cfg # None /\ geo.align # None
              /\ \E k \in 1..Len(geo.cfg[1]) :
                    /\ geo.cfg[1][k].name = geo.stnid
                    /\ \A j \in 1..(k - 1) : geo.cfg[1][j].name # geo.stnid
                    /\ geo.ret = <<<<geo.cfg[1][k].x, geo.cfg[1][k].y,
                                     geo.cfg[1][k].z>>, geo.align[1]>>
        /\ (Terminal /\ geo.cfg # None
              /\ \A k \in 1..Len(geo.cfg[1]) : geo.cfg[1][k].name # geo.stnid)
              => /\ exc = "ValueError"
                 /\ ~geo.alignRead
                 /\ geo.ret = None
        /\ (Terminal /\ geo.align = None) => (exc # "" /\ geo.ret = None)

(* C10: a command line that omits a required positional argument ends with *)
(* a message and the usage text printed and a non-zero exit status, by     *)
(* sys.exit and not by a traceback, and main is not invoked.               *)
C10_MissingArgUsage ==
    (prog = "cli_main" /\ Len(cmdargs) < 10 /\ pc # "cli_main")
        => /\ exitStatus # 0
           /\ exc = ""
           /\ Len(out) = 2
           /\ out[2] = TextLine("USAGE")
           /\ ~HaveGrid

====
